---- MODULE Spec2Model ----
(***************************************************************************)
(* Model of the event codec and the event dispatch operations of           *)
(* stream-chat-go (event.go): Event / UserCustomEvent with their           *)
(* MarshalJSON / UnmarshalJSON pairs, Channel.SendEvent and                *)
(* Client.SendUserCustomEvent.                                             *)
(*                                                                         *)
(* Go values are modelled natively (a string field is a string, an int    *)
(* field a number, a pointer a sequence of length 0 (nil) or 1, a time a   *)
(* number with 0 the zero time); JSON values are tagged records; a JSON    *)
(* document is the ordered list of its members, so that duplicate keys,    *)
(* member order and encoding/json's case-insensitive field matching are    *)
(* all part of the model.                                                  *)
(***************************************************************************)
EXTENDS Integers, Sequences, FiniteSets, TLC

VARIABLES
    phase,      \* codec scenario: "start", "built", "encoded", "received", "decoded"
    kind,       \* entity of the codec scenario: "Event" or "UserCustomEvent"
    ent,        \* the entity handed to MarshalJSON
    doc,        \* the wire document
    dec,        \* result of UnmarshalJSON: [err, e]
    events,     \* heap of caller-owned Event objects
    uevents,    \* heap of caller-owned UserCustomEvent objects
    pc,         \* per call: position in SendEvent / SendUserCustomEvent
    call,       \* per call: the arguments
    pre,        \* per call: the callers' objects as they were when the call started
    sent,       \* per call: the requests the call gave makeRequest, in order
    reply,      \* per call: what the transport gave back
    ret,        \* per call: what the call returned
    overlap     \* per call: another call used the same event object meanwhile

codecVars == <<phase, kind, ent, doc, dec>>
dispatchVars == <<events, uevents, pc, call, pre, sent, reply, ret, overlap>>
vars == <<phase, kind, ent, doc, dec, events, uevents, pc, call, pre, sent, reply, ret,
          overlap>>

----------------------------------------------------------------------------
(* Bounds *)

\* at most this many optional known fields of a constructed entity are non-empty
MaxSetFields == 2
\* at most this many entries in a constructed extra map
MaxExtra == 2
\* at most this many members in an inbound document
MaxDocLen == 2

----------------------------------------------------------------------------
(* JSON values *)

Str(s) == [t |-> "string", s |-> s, n |-> 0]
Num(n) == [t |-> "number", s |-> "", n |-> n]
Null == [t |-> "null", s |-> "", n |-> 0]
Obj(id) == [t |-> "object", s |-> id, n |-> 0]
Arr(q) == [t |-> "array", s |-> IF q = <<>> THEN "" ELSE q[1], n |-> Len(q)]

\* time.Time.MarshalJSON: RFC 3339 text of the instant
FormatTime(tm) == IF tm = 0 THEN "0001-01-01T00:00:00Z" ELSE "2020-01-01T00:00:00Z"

TimeTexts == {"0001-01-01T00:00:00Z", "2020-01-01T00:00:00Z"}

\* time.Time.UnmarshalJSON: the instant of an RFC 3339 text
ParseTime(s) == IF s = "0001-01-01T00:00:00Z" THEN 0 ELSE 1

----------------------------------------------------------------------------
(* The two entities: their fields, wire names and omitempty options *)

EventSchema == <<
    [go |-> "CID",          wire |-> "cid",           typ |-> "string", omitempty |-> TRUE],
    [go |-> "Type",         wire |-> "type",          typ |-> "string", omitempty |-> FALSE],
    [go |-> "Message",      wire |-> "message",       typ |-> "ptr",    omitempty |-> TRUE],
    [go |-> "Reaction",     wire |-> "reaction",      typ |-> "ptr",    omitempty |-> TRUE],
    [go |-> "Channel",      wire |-> "channel",       typ |-> "ptr",    omitempty |-> TRUE],
    [go |-> "Member",       wire |-> "member",        typ |-> "ptr",    omitempty |-> TRUE],
    [go |-> "Members",      wire |-> "members",       typ |-> "slice",  omitempty |-> TRUE],
    [go |-> "User",         wire |-> "user",          typ |-> "ptr",    omitempty |-> TRUE],
    [go |-> "UserID",       wire |-> "user_id",       typ |-> "string", omitempty |-> TRUE],
    [go |-> "OwnUser",      wire |-> "me",            typ |-> "ptr",    omitempty |-> TRUE],
    [go |-> "WatcherCount", wire |-> "watcher_count", typ |-> "int",    omitempty |-> TRUE],
    [go |-> "CreatedAt",    wire |-> "created_at",    typ |-> "time",   omitempty |-> TRUE] >>

UserCustomEventSchema == <<
    [go |-> "Type",         wire |-> "type",          typ |-> "string", omitempty |-> FALSE],
    [go |-> "CreatedAt",    wire |-> "created_at",    typ |-> "time",   omitempty |-> TRUE] >>

SchemaOf(k) == IF k = "Event" THEN EventSchema ELSE UserCustomEventSchema

GoFields(schema) == {schema[i].go : i \in 1..Len(schema)}

WireNames(schema) == {schema[i].wire : i \in 1..Len(schema)}

\* the field of a struct with a Go name
FieldOf(schema, g) == schema[CHOOSE i \in 1..Len(schema) : schema[i].go = g]

\* the zero value of a Go type
ZeroOf(typ) ==
    CASE typ = "string" -> ""
      [] typ = "int"    -> 0
      [] typ = "time"   -> 0
      [] OTHER          -> <<>>

\* eventForJSON / userCustomEventForJSON: the struct without its methods, and
\* without ExtraData, which is tagged json:"-"
ZeroStruct(schema) ==
    [g \in GoFields(schema) |-> ZeroOf(FieldOf(schema, g).typ)]

\* a nil / empty map[string]interface{}
EmptyMap == [k \in {} |-> Null]

\* var e Event / var e UserCustomEvent
ZeroEntity(k) == [known |-> ZeroStruct(SchemaOf(k)), ExtraData |-> EmptyMap]

----------------------------------------------------------------------------
(* encoding/json as the codec uses it *)

\* every object key the model uses, in byte order (json.Marshal writes the
\* keys of a map sorted)
KeyOrder == <<"CID", "Type", "channel", "cid", "created_at", "foo", "me", "member",
              "members", "message", "reaction", "type", "user", "user_id",
              "watcher_count">>

Keys == {KeyOrder[i] : i \in 1..Len(KeyOrder)}

\* case folding of a key (encoding/json matches field names with
\* bytes.EqualFold when no exact match exists)
Fold(k) ==
    CASE k = "CID"  -> "cid"
      [] k = "Type" -> "type"
      [] OTHER      -> k

\* a document: whether the text is a JSON object, and its members in order
Document(ms) == [object |-> TRUE, members |-> ms]

NotAnObject == [object |-> FALSE, members |-> <<>>]

\* omitempty: false, 0, a nil pointer, an empty slice or string are empty;
\* a struct (time.Time) never is
IsEmptyValue(typ, v) ==
    CASE typ = "string" -> v = ""
      [] typ = "int"    -> v = 0
      [] typ = "ptr"    -> v = <<>>
      [] typ = "slice"  -> v = <<>>
      [] OTHER          -> FALSE

\* the JSON value of a Go value of a field type
ToJSON(typ, v) ==
    CASE typ = "string" -> Str(v)
      [] typ = "int"    -> Num(v)
      [] typ = "ptr"    -> IF v = <<>> THEN Null ELSE Obj(v[1])
      [] typ = "slice"  -> Arr(v)
      [] OTHER          -> Str(FormatTime(v))

\* decoding the JSON value jv into a field of a Go type holding old:
\* null leaves a non-pointer unchanged and clears a pointer or slice, a value
\* of the wrong JSON type is an UnmarshalTypeError
FromJSON(typ, old, jv) ==
    IF jv.t = "null"
    THEN [err |-> FALSE, v |-> IF typ \in {"ptr", "slice"} THEN <<>> ELSE old]
    ELSE CASE typ = "string" ->
                IF jv.t = "string" THEN [err |-> FALSE, v |-> jv.s]
                ELSE [err |-> TRUE, v |-> old]
           [] typ = "int" ->
                IF jv.t = "number" THEN [err |-> FALSE, v |-> jv.n]
                ELSE [err |-> TRUE, v |-> old]
           [] typ = "ptr" ->
                IF jv.t = "object" THEN [err |-> FALSE, v |-> <<jv.s>>]
                ELSE [err |-> TRUE, v |-> old]
           [] typ = "slice" ->
                IF jv.t = "array" THEN [err |-> FALSE, v |-> [i \in 1..jv.n |-> jv.s]]
                ELSE [err |-> TRUE, v |-> old]
           [] OTHER ->
                IF jv.t = "string" /\ jv.s \in TimeTexts
                THEN [err |-> FALSE, v |-> ParseTime(jv.s)]
                ELSE [err |-> TRUE, v |-> old]

\* json.Marshal of the struct: one member per field in declaration order,
\* a field with omitempty left out when its value is empty
RECURSIVE MarshalStruct(_, _, _)
MarshalStruct(schema, known, i) ==
    IF i > Len(schema) THEN <<>>
    ELSE LET f == schema[i]
             rest == MarshalStruct(schema, known, i + 1)
         IN  IF f.omitempty /\ IsEmptyValue(f.typ, known[f.go])
             THEN rest
             ELSE <<(<<f.wire, ToJSON(f.typ, known[f.go])>>)>> \o rest

\* the field a key decodes into: the one whose name is the key, else the
\* first whose name equals it under case folding, else none (0)
FieldFor(schema, key) ==
    IF \E i \in 1..Len(schema) : schema[i].wire = key
    THEN CHOOSE i \in 1..Len(schema) : schema[i].wire = key
    ELSE IF \E i \in 1..Len(schema) : Fold(schema[i].wire) = Fold(key)
         THEN CHOOSE i \in 1..Len(schema) :
                /\ Fold(schema[i].wire) = Fold(key)
                /\ \A j \in 1..(i - 1) : Fold(schema[j].wire) # Fold(key)
         ELSE 0

\* json.Unmarshal into the struct: members in document order, each into the
\* field FieldFor gives it, unknown keys skipped; the first type error is
\* what is returned
RECURSIVE UnmarshalStruct(_, _, _, _)
UnmarshalStruct(schema, known, ms, i) ==
    IF i > Len(ms) THEN [err |-> FALSE, known |-> known]
    ELSE LET fi == FieldFor(schema, ms[i][1])
         IN  IF fi = 0 THEN UnmarshalStruct(schema, known, ms, i + 1)
             ELSE LET f == schema[fi]
                      r == FromJSON(f.typ, known[f.go], ms[i][2])
                      next == UnmarshalStruct(schema, [known EXCEPT ![f.go] = r.v], ms, i + 1)
                  IN  [err |-> r.err \/ next.err, known |-> next.known]

\* json.Unmarshal into a map[string]interface{}: members in document order,
\* a later member replacing an earlier one of the same key
RECURSIVE UnmarshalMap(_, _, _)
UnmarshalMap(m, ms, i) ==
    IF i > Len(ms) THEN m
    ELSE LET k == ms[i][1]
             m2 == [x \in DOMAIN m \cup {k} |-> IF x = k THEN ms[i][2] ELSE m[x]]
         IN  UnmarshalMap(m2, ms, i + 1)

\* json.Marshal of a map: its entries, keys sorted
RECURSIVE MarshalMap(_, _)
MarshalMap(m, i) ==
    IF i > Len(KeyOrder) THEN <<>>
    ELSE IF KeyOrder[i] \in DOMAIN m
         THEN <<(<<KeyOrder[i], m[KeyOrder[i]]>>)>> \o MarshalMap(m, i + 1)
         ELSE MarshalMap(m, i + 1)

----------------------------------------------------------------------------
(* The codec *)

eventForJSON(e) == [schema |-> EventSchema, known |-> e.known]

userCustomEventForJSON(e) == [schema |-> UserCustomEventSchema, known |-> e.known]

\* merges the wire-visible members of obj into a copy of m, a member of obj
\* replacing an entry of m with the same key, and marshals the result
addToMapAndMarshal(m, obj) ==
    LET data == MarshalStruct(obj.schema, obj.known, 1)
        m2 == UnmarshalMap(m, data, 1)
    IN  [err |-> FALSE, data |-> Document(MarshalMap(m2, 1))]

\* m without the keys that are wire names of obj's fields
removeFromMap(m, obj) ==
    [k \in DOMAIN m \ WireNames(obj.schema) |-> m[k]]

Event_MarshalJSON_Concat(e) ==
    [err |-> FALSE,
     data |-> Document(MarshalStruct(EventSchema, e.known, 1) \o MarshalMap(e.ExtraData, 1))]

Event_MarshalJSON(e) == addToMapAndMarshal(e.ExtraData, eventForJSON(e))

UserCustomEvent_MarshalJSON(e) == addToMapAndMarshal(e.ExtraData, userCustomEventForJSON(e))

Event_UnmarshalJSON_NoStrip(e, data) ==
    LET r == IF data.object
             THEN UnmarshalStruct(EventSchema, ZeroStruct(EventSchema), data.members, 1)
             ELSE [err |-> TRUE, known |-> e.known]
    IN  IF r.err THEN [err |-> TRUE, e |-> e]
        ELSE [err |-> FALSE,
              e |-> [known |-> r.known,
                     ExtraData |-> UnmarshalMap(EmptyMap, data.members, 1)]]

\* returns the error and the receiver as the call leaves it
Event_UnmarshalJSON(e, data) ==
    LET r == IF data.object
             THEN UnmarshalStruct(EventSchema, ZeroStruct(EventSchema), data.members, 1)
             ELSE [err |-> TRUE, known |-> e.known]
    IN  IF r.err THEN [err |-> TRUE, e |-> e]
        ELSE LET e1 == [known |-> r.known, ExtraData |-> EmptyMap]
             IN  IF ~data.object THEN [err |-> TRUE, e |-> e1]
                 ELSE LET m == UnmarshalMap(e1.ExtraData, data.members, 1)
                      IN  [err |-> FALSE,
                           e |-> [e1 EXCEPT !.ExtraData = removeFromMap(m, eventForJSON(e1))]]

UserCustomEvent_UnmarshalJSON(e, data) ==
    LET r == IF data.object
             THEN UnmarshalStruct(UserCustomEventSchema, ZeroStruct(UserCustomEventSchema),
                                  data.members, 1)
             ELSE [err |-> TRUE, known |-> e.known]
    IN  IF r.err THEN [err |-> TRUE, e |-> e]
        ELSE LET e1 == [known |-> r.known, ExtraData |-> EmptyMap]
             IN  IF ~data.object THEN [err |-> TRUE, e |-> e1]
                 ELSE LET m == UnmarshalMap(e1.ExtraData, data.members, 1)
                      IN  [err |-> FALSE,
                           e |-> [e1 EXCEPT !.ExtraData =
                                     removeFromMap(m, userCustomEventForJSON(e1))]]

MarshalJSON(k, e) ==
    IF k = "Event" THEN Event_MarshalJSON(e) ELSE UserCustomEvent_MarshalJSON(e)

UnmarshalJSON(k, e, data) ==
    IF k = "Event" THEN Event_UnmarshalJSON(e, data) ELSE UserCustomEvent_UnmarshalJSON(e, data)

----------------------------------------------------------------------------
(* Inputs of the codec scenario *)

Kinds == {"Event", "UserCustomEvent"}

TypeValues == {"message.new", ""}

\* the non-empty value a constructed entity gives an optional field
NonZeroOf(f) ==
    CASE f.typ = "string" -> IF f.go = "CID" THEN "messaging:general" ELSE "alice"
      [] f.typ = "int"    -> 1
      [] f.typ = "time"   -> 1
      [] f.typ = "slice"  -> <<"m1">>
      [] OTHER            -> <<"obj">>

OptionalFields(schema) == GoFields(schema) \ {"Type"}

Knowns(k) ==
    LET schema == SchemaOf(k)
    IN  { [g \in GoFields(schema) |->
              IF g = "Type" THEN ty
              ELSE IF g \in S THEN NonZeroOf(FieldOf(schema, g))
              ELSE ZeroOf(FieldOf(schema, g).typ)] :
          S \in {T \in SUBSET OptionalFields(schema) : Cardinality(T) <= MaxSetFields},
          ty \in TypeValues }

ExtraKeys == {"foo", "CID", "Type", "cid", "type"}

ExtraVals == {Str("bogus"), Num(1)}

ExtraMaps ==
    UNION { [D -> ExtraVals] : D \in {T \in SUBSET ExtraKeys : Cardinality(T) <= MaxExtra} }

Entities(k) == { [known |-> kn, ExtraData |-> m] : kn \in Knowns(k), m \in ExtraMaps }

InboundKeys == {"cid", "type", "watcher_count", "foo", "CID"}

InboundVals == {Str(""), Str("x"), Num(0), Null}

InboundMembers == InboundKeys \X InboundVals

InboundDocs ==
    {NotAnObject} \cup
    UNION { {Document(ms) : ms \in [1..n -> InboundMembers]} : n \in 0..MaxDocLen }

----------------------------------------------------------------------------
(* Paths: a string is the sequence of its characters; the fixed words
   "channels", "users" and "event" are single symbols *)

\* url.PathEscape: a character that is not allowed in a path segment becomes
\* its percent-encoding
EscapeChar(c) ==
    CASE c = "/" -> <<"%", "2", "F">>
      [] c = "%" -> <<"%", "2", "5">>
      [] OTHER   -> <<c>>

RECURSIVE PathEscape(_)
PathEscape(s) ==
    IF s = <<>> THEN <<>> ELSE EscapeChar(Head(s)) \o PathEscape(Tail(s))

\* the segments of a path between its slashes
RECURSIVE Split(_, _)
Split(s, cur) ==
    IF s = <<>> THEN <<cur>>
    ELSE IF Head(s) = "/" THEN <<cur>> \o Split(Tail(s), <<>>)
         ELSE Split(Tail(s), Append(cur, Head(s)))

RECURSIVE JoinSegs(_)
JoinSegs(segs) ==
    IF segs = <<>> THEN <<>>
    ELSE IF Len(segs) = 1 THEN segs[1]
         ELSE segs[1] \o <<"/">> \o JoinSegs(Tail(segs))

\* path.Clean on the segments of a path that is not rooted: empty and "."
\* segments go, ".." takes the segment before it with it, or stays when
\* there is none to take
RECURSIVE CleanSegs(_, _)
CleanSegs(segs, out) ==
    IF segs = <<>> THEN out
    ELSE LET g == Head(segs)
         IN  IF g = <<>> \/ g = <<".">> THEN CleanSegs(Tail(segs), out)
             ELSE IF g = <<".", ".">>
                  THEN IF out # <<>> /\ out[Len(out)] # <<".", ".">>
                       THEN CleanSegs(Tail(segs), SubSeq(out, 1, Len(out) - 1))
                       ELSE CleanSegs(Tail(segs), Append(out, g))
                  ELSE CleanSegs(Tail(segs), Append(out, g))

\* path.Clean of a path that does not start with a slash
Clean(p) ==
    IF p = <<>> THEN <<".">>
    ELSE LET out == JoinSegs(CleanSegs(Split(p, <<>>), <<>>))
         IN  IF out = <<>> THEN <<".">> ELSE out

RECURSIVE NonEmptyElems(_)
NonEmptyElems(elems) ==
    IF elems = <<>> THEN <<>>
    ELSE IF Head(elems) = <<>> THEN NonEmptyElems(Tail(elems))
         ELSE <<Head(elems)>> \o NonEmptyElems(Tail(elems))

\* path.Join: the non-empty elements joined by slashes, then cleaned; the
\* empty path when there are none
PathJoin(elems) ==
    LET ne == NonEmptyElems(elems)
    IN  IF ne = <<>> THEN <<>> ELSE Clean(JoinSegs(ne))

----------------------------------------------------------------------------
(* The codec scenario: an entity is constructed and encoded, or a document
   arrives, and the document is decoded into a fresh entity *)

Construct ==
    /\ phase = "start"
    /\ \E k \in Kinds : \E e \in Entities(k) :
          /\ kind' = k
          /\ ent' = e
    /\ phase' = "built"
    /\ UNCHANGED <<doc, dec>>
    /\ UNCHANGED dispatchVars

Encode ==
    /\ phase = "built"
    /\ LET r == MarshalJSON(kind, ent)
       IN  /\ ~r.err
           /\ doc' = r.data
    /\ phase' = "encoded"
    /\ UNCHANGED <<kind, ent, dec>>
    /\ UNCHANGED dispatchVars

Receive ==
    /\ phase = "start"
    /\ \E k \in Kinds : \E d \in InboundDocs :
          /\ kind' = k
          /\ doc' = d
    /\ phase' = "received"
    /\ UNCHANGED <<ent, dec>>
    /\ UNCHANGED dispatchVars

Decode ==
    /\ phase \in {"encoded", "received"}
    /\ dec' = UnmarshalJSON(kind, ZeroEntity(kind), doc)
    /\ phase' = IF phase = "encoded" THEN "roundtrip" ELSE "decoded"
    /\ UNCHANGED <<kind, ent, doc>>
    /\ UNCHANGED dispatchVars

----------------------------------------------------------------------------
(* Dispatch: the callers' objects and the calls *)

Procs == {1, 2}

\* Event objects the callers hold; 0 is the nil pointer
EvIds == {1, 2}

\* UserCustomEvent objects the callers hold; 0 is the nil pointer
UIds == {1}

BaseEvent == [ZeroStruct(EventSchema) EXCEPT !["Type"] = "message.new"]

EventPool ==
    { [known |-> [BaseEvent EXCEPT !["User"] = <<"alice">>],
       ExtraData |-> [k \in {"foo"} |-> Str("bar")]],
      [known |-> BaseEvent,
       ExtraData |-> [k \in {"user"} |-> Str("bogus")]] }

UserCustomEventPool ==
    { [known |-> [ZeroStruct(UserCustomEventSchema) EXCEPT !["Type"] = "custom"],
       ExtraData |-> EmptyMap],
      [known |-> [ZeroStruct(UserCustomEventSchema) EXCEPT !["Type"] = "custom"],
       ExtraData |-> [k \in {"foo"} |-> Num(1)]] }

NoCall == [op |-> "none", ev |-> 0, userID |-> "", chType |-> <<>>, chID |-> <<>>,
           target |-> <<>>]

NoResult == [resp |-> "none", err |-> "none"]

NoPre == [events |-> [i \in EvIds |-> ZeroEntity("Event")],
          uevents |-> [i \in UIds |-> ZeroEntity("UserCustomEvent")]]

\* what the transport can give back: the decoded response and no error, or an
\* error with the response as far as it was filled
Replies == {[resp |-> "ok", err |-> "nil"], [resp |-> "zero", err |-> "transport error"]}

SendEventArgs(evs, users, types, ids) ==
    { [op |-> "SendEvent", ev |-> e, userID |-> u, chType |-> ty, chID |-> id,
       target |-> <<>>] : e \in evs, u \in users, ty \in types, id \in ids }

SendUserCustomEventArgs(evs, targets) ==
    { [op |-> "SendUserCustomEvent", ev |-> e, userID |-> "", chType |-> <<>>,
       chID |-> <<>>, target |-> tg] : e \in evs, tg \in targets }

\* the arguments of the sequential scenario
Args ==
    SendEventArgs({0} \cup EvIds, {"alice", "bob"}, {<<"m">>, <<>>},
                  {<<"g">>, <<"g", "/", "t">>, <<".">>, <<".", ".">>, <<>>})
    \cup SendUserCustomEventArgs({0} \cup UIds,
                  {<<>>, <<"u">>, <<"a", "/", "b">>, <<".", ".">>, <<"%">>})

\* the arguments of the concurrent scenario
ConcArgs ==
    SendEventArgs(EvIds, {"alice", "bob"}, {<<"m">>}, {<<"g">>, <<"t">>})
    \cup SendEventArgs({0}, {"alice"}, {<<"m">>}, {<<"g">>})
    \cup SendUserCustomEventArgs(UIds, {<<>>, <<"u">>, <<"v">>})

\* a call is running: it has started and not yet returned
Running(q) == pc[q] \notin {"idle", "returned"}

\* q runs SendEvent on the Event object that a also names
SharesEvent(q, a) ==
    /\ Running(q)
    /\ call[q].op = "SendEvent"
    /\ a.op = "SendEvent"
    /\ a.ev # 0
    /\ call[q].ev = a.ev

\* a caller starts a call with arguments a
Call(p, a) ==
    /\ pc[p] = "idle"
    /\ pc' = [pc EXCEPT ![p] = "entry"]
    /\ call' = [call EXCEPT ![p] = a]
    /\ pre' = [pre EXCEPT ![p] = [events |-> events, uevents |-> uevents]]
    /\ overlap' = [q \in Procs |->
                     IF q = p THEN \E r \in Procs \ {p} : SharesEvent(r, a)
                     ELSE overlap[q] \/ SharesEvent(q, a)]
    /\ UNCHANGED <<events, uevents, sent, reply, ret>>
    /\ UNCHANGED codecVars

CallSeq(p) ==
    /\ \A q \in Procs : pc[q] = "idle"
    /\ \E a \in Args : Call(p, a)

CallConc(p) == \E a \in ConcArgs : Call(p, a)

\* what makeRequest is given: method, path, and the body as it serializes it
Request(method, path, body) == [method |-> method, path |-> path, body |-> body]

\* the serialized envelope struct { Event *Event `json:"event"` }
EventEnvelope(ev) == [event |-> Event_MarshalJSON(events[ev]).data]

\* the serialized envelope struct { Event *UserCustomEvent `json:"event"` }
UserCustomEventEnvelope(ev) == [event |-> UserCustomEvent_MarshalJSON(uevents[ev]).data]

\* c.makeRequest up to the point where the request is on the wire
makeRequest(p, method, path, body) ==
    /\ sent' = [sent EXCEPT ![p] = Append(@, Request(method, path, body))]
    /\ pc' = [pc EXCEPT ![p] = "awaiting"]

\* c.makeRequest from there: the transport's response and error
TransportReply(p) ==
    /\ pc[p] = "awaiting"
    /\ \E r \in Replies : reply' = [reply EXCEPT ![p] = r]
    /\ pc' = [pc EXCEPT ![p] = "return"]
    /\ UNCHANGED <<events, uevents, call, pre, sent, ret, overlap>>
    /\ UNCHANGED codecVars

SendEvent_Guard(p) ==
    /\ pc[p] = "entry"
    /\ call[p].op = "SendEvent"
    /\ IF call[p].ev = 0
       THEN /\ ret' = [ret EXCEPT ![p] = [resp |-> "nil", err |-> "event is nil"]]
            /\ pc' = [pc EXCEPT ![p] = "returned"]
       ELSE /\ pc' = [pc EXCEPT ![p] = "setUser"]
            /\ UNCHANGED ret
    /\ UNCHANGED <<events, uevents, call, pre, sent, reply, overlap>>
    /\ UNCHANGED codecVars

SendEvent_SetUser_IfAbsent(p) ==
    /\ pc[p] = "setUser"
    /\ events' = IF events[call[p].ev].known["User"] = <<>>
                 THEN [events EXCEPT ![call[p].ev].known["User"] = <<call[p].userID>>]
                 ELSE events
    /\ pc' = [pc EXCEPT ![p] = "request"]
    /\ UNCHANGED <<uevents, call, pre, sent, reply, ret, overlap>>
    /\ UNCHANGED codecVars

SendEvent_SetUser_AllEvents(p) ==
    /\ pc[p] = "setUser"
    /\ events' = [i \in EvIds |-> [events[i] EXCEPT !.known["User"] = <<call[p].userID>>]]
    /\ pc' = [pc EXCEPT ![p] = "request"]
    /\ UNCHANGED <<uevents, call, pre, sent, reply, ret, overlap>>
    /\ UNCHANGED codecVars

SendEvent_SetUser_AndUserID(p) ==
    /\ pc[p] = "setUser"
    /\ events' = [events EXCEPT ![call[p].ev].known["User"] = <<call[p].userID>>,
                                ![call[p].ev].known["UserID"] = call[p].userID]
    /\ pc' = [pc EXCEPT ![p] = "request"]
    /\ UNCHANGED <<uevents, call, pre, sent, reply, ret, overlap>>
    /\ UNCHANGED codecVars

SendEvent_SetUser(p) ==
    /\ pc[p] = "setUser"
    /\ events' = [events EXCEPT ![call[p].ev].known["User"] = <<call[p].userID>>]
    /\ pc' = [pc EXCEPT ![p] = "request"]
    /\ UNCHANGED <<uevents, call, pre, sent, reply, ret, overlap>>
    /\ UNCHANGED codecVars

SendEvent_Path(chType, chID) ==
    PathJoin(<< <<"channels">>, PathEscape(chType), PathEscape(chID), <<"event">> >>)

SendEvent_MakeRequest(p) ==
    /\ pc[p] = "request"
    /\ call[p].op = "SendEvent"
    /\ makeRequest(p, "POST", SendEvent_Path(call[p].chType, call[p].chID),
                   EventEnvelope(call[p].ev))
    /\ UNCHANGED <<events, uevents, call, pre, reply, ret, overlap>>
    /\ UNCHANGED codecVars

SendEvent_Return_NilOnError(p) ==
    /\ pc[p] = "return"
    /\ call[p].op = "SendEvent"
    /\ ret' = [ret EXCEPT ![p] =
                  [resp |-> IF reply[p].err = "nil" THEN reply[p].resp ELSE "nil",
                   err |-> reply[p].err]]
    /\ pc' = [pc EXCEPT ![p] = "returned"]
    /\ UNCHANGED <<events, uevents, call, pre, sent, reply, overlap>>
    /\ UNCHANGED codecVars

SendEvent_Return(p) ==
    /\ pc[p] = "return"
    /\ call[p].op = "SendEvent"
    /\ ret' = [ret EXCEPT ![p] = [resp |-> reply[p].resp, err |-> reply[p].err]]
    /\ pc' = [pc EXCEPT ![p] = "returned"]
    /\ UNCHANGED <<events, uevents, call, pre, sent, reply, overlap>>
    /\ UNCHANGED codecVars

SendUserCustomEvent_Guard_NoTargetCheck(p) ==
    /\ pc[p] = "entry"
    /\ call[p].op = "SendUserCustomEvent"
    /\ IF call[p].ev = 0
       THEN /\ ret' = [ret EXCEPT ![p] = [resp |-> "nil", err |-> "event is nil"]]
            /\ pc' = [pc EXCEPT ![p] = "returned"]
       ELSE /\ pc' = [pc EXCEPT ![p] = "request"]
            /\ UNCHANGED ret
    /\ UNCHANGED <<events, uevents, call, pre, sent, reply, overlap>>
    /\ UNCHANGED codecVars

SendUserCustomEvent_Guard(p) ==
    /\ pc[p] = "entry"
    /\ call[p].op = "SendUserCustomEvent"
    /\ IF call[p].ev = 0
       THEN /\ ret' = [ret EXCEPT ![p] = [resp |-> "nil", err |-> "event is nil"]]
            /\ pc' = [pc EXCEPT ![p] = "returned"]
       ELSE IF call[p].target = <<>>
            THEN /\ ret' = [ret EXCEPT ![p] =
                               [resp |-> "nil", err |-> "targetUserID should not be empty"]]
                 /\ pc' = [pc EXCEPT ![p] = "returned"]
            ELSE /\ pc' = [pc EXCEPT ![p] = "request"]
                 /\ UNCHANGED ret
    /\ UNCHANGED <<events, uevents, call, pre, sent, reply, overlap>>
    /\ UNCHANGED codecVars

SendUserCustomEvent_Path(targetUserID) ==
    PathJoin(<< <<"users">>, PathEscape(targetUserID), <<"event">> >>)

SendUserCustomEvent_MakeRequest(p) ==
    /\ pc[p] = "request"
    /\ call[p].op = "SendUserCustomEvent"
    /\ makeRequest(p, "POST", SendUserCustomEvent_Path(call[p].target),
                   UserCustomEventEnvelope(call[p].ev))
    /\ UNCHANGED <<events, uevents, call, pre, reply, ret, overlap>>
    /\ UNCHANGED codecVars

SendUserCustomEvent_Return(p) ==
    /\ pc[p] = "return"
    /\ call[p].op = "SendUserCustomEvent"
    /\ ret' = [ret EXCEPT ![p] = [resp |-> reply[p].resp, err |-> reply[p].err]]
    /\ pc' = [pc EXCEPT ![p] = "returned"]
    /\ UNCHANGED <<events, uevents, call, pre, sent, reply, overlap>>
    /\ UNCHANGED codecVars

\* the caller takes the result; the call's record is cleared
Finish(p) ==
    /\ pc[p] = "returned"
    /\ pc' = [pc EXCEPT ![p] = "idle"]
    /\ call' = [call EXCEPT ![p] = NoCall]
    /\ pre' = [pre EXCEPT ![p] = NoPre]
    /\ sent' = [sent EXCEPT ![p] = <<>>]
    /\ reply' = [reply EXCEPT ![p] = NoResult]
    /\ ret' = [ret EXCEPT ![p] = NoResult]
    /\ overlap' = [overlap EXCEPT ![p] = FALSE]
    /\ UNCHANGED <<events, uevents>>
    /\ UNCHANGED codecVars

----------------------------------------------------------------------------
(* Specifications *)

CodecIdle ==
    /\ phase = "start"
    /\ kind = "Event"
    /\ ent = ZeroEntity("Event")
    /\ doc = Document(<<>>)
    /\ dec = [err |-> FALSE, e |-> ZeroEntity("Event")]

DispatchIdle ==
    /\ pc = [p \in Procs |-> "idle"]
    /\ call = [p \in Procs |-> NoCall]
    /\ pre = [p \in Procs |-> NoPre]
    /\ sent = [p \in Procs |-> <<>>]
    /\ reply = [p \in Procs |-> NoResult]
    /\ ret = [p \in Procs |-> NoResult]
    /\ overlap = [p \in Procs |-> FALSE]

Init ==
    /\ CodecIdle
    /\ DispatchIdle
    /\ events \in [EvIds -> EventPool]
    /\ uevents \in [UIds -> UserCustomEventPool]

\* one choice of the callers' objects
InitFixed ==
    /\ CodecIdle
    /\ DispatchIdle
    /\ events = [i \in EvIds |->
                   [known |-> IF i = 1 THEN [BaseEvent EXCEPT !["User"] = <<"alice">>]
                              ELSE BaseEvent,
                    ExtraData |-> IF i = 1 THEN [k \in {"foo"} |-> Str("bar")]
                                  ELSE [k \in {"user"} |-> Str("bogus")]]]
    /\ uevents = [i \in UIds |->
                    [known |-> [ZeroStruct(UserCustomEventSchema) EXCEPT !["Type"] = "custom"],
                     ExtraData |-> [k \in {"foo"} |-> Num(1)]]]

Step(p) ==
    \/ SendEvent_Guard(p)
    \/ SendEvent_SetUser(p)
    \/ SendEvent_MakeRequest(p)
    \/ SendEvent_Return(p)
    \/ SendUserCustomEvent_Guard(p)
    \/ SendUserCustomEvent_MakeRequest(p)
    \/ SendUserCustomEvent_Return(p)
    \/ TransportReply(p)
    \/ Finish(p)

\* one call at a time
Next == \E p \in Procs : CallSeq(p) \/ Step(p)

Spec == Init /\ [][Next]_vars

\* calls overlap freely
NextConc == \E p \in Procs : CallConc(p) \/ Step(p)

SpecConc == InitFixed /\ [][NextConc]_vars

NextCodec == Construct \/ Encode \/ Receive \/ Decode

SpecCodec == InitFixed /\ [][NextCodec]_vars

----------------------------------------------------------------------------
(* Properties of the codec, under SpecCodec *)

DocKeys(d) == {d.members[i][1] : i \in 1..Len(d.members)}

\* the members of a document with a key
MembersAt(d, k) == {i \in 1..Len(d.members) : d.members[i][1] = k}

\* the value a key resolves to: that of its last member
LastValue(d, k) ==
    d.members[CHOOSE i \in MembersAt(d, k) : \A j \in MembersAt(d, k) : j <= i][2]

\* the fields of an entity that its encoding shows
VisibleFields(schema, known) ==
    {i \in 1..Len(schema) :
        ~(schema[i].omitempty /\ IsEmptyValue(schema[i].typ, known[schema[i].go]))}

\* C1: decoding the encoding of an entity whose extra keys are all different
\* from its wire names gives back the known fields and the extra map.
C1_RoundTrip ==
    (phase = "roundtrip" /\ DOMAIN ent.ExtraData \cap WireNames(SchemaOf(kind)) = {})
        => /\ ~dec.err
           /\ dec.e.known = ent.known
           /\ dec.e.ExtraData = ent.ExtraData

\* C2: an extra key that equals the wire name of a field the encoding shows
\* has exactly one member in the document, with the field's value; decoding
\* the document leaves the key out of the extra map.
C2_KnownFieldPrecedence ==
    phase \in {"encoded", "roundtrip"} =>
        \A i \in VisibleFields(SchemaOf(kind), ent.known) :
            LET f == SchemaOf(kind)[i]
            IN  f.wire \in DOMAIN ent.ExtraData =>
                   /\ Cardinality(MembersAt(doc, f.wire)) = 1
                   /\ LastValue(doc, f.wire) = ToJSON(f.typ, ent.known[f.go])
                   /\ LastValue(doc, f.wire) # ent.ExtraData[f.wire]
                   /\ (phase = "roundtrip" /\ ~dec.err) => f.wire \notin DOMAIN dec.e.ExtraData

C2_Witness ==
    /\ phase = "roundtrip"
    /\ kind = "Event"
    /\ ent.known["Type"] = "message.new"
    /\ ent.ExtraData = [k \in {"type"} |-> Str("bogus")]
    /\ LastValue(doc, "type") = Str("message.new")
    /\ ~dec.err
    /\ dec.e.ExtraData = EmptyMap

\* C3: after a successful decode the extra map has no key that is a wire name
\* of the entity, whatever value the document gave it, and has every other
\* key of the document with its value.
C3_DecodeStripsBySchema ==
    (phase \in {"decoded", "roundtrip"} /\ ~dec.err) =>
        /\ DOMAIN dec.e.ExtraData \cap WireNames(SchemaOf(kind)) = {}
        /\ DOMAIN dec.e.ExtraData = DocKeys(doc) \ WireNames(SchemaOf(kind))
        /\ \A k \in DOMAIN dec.e.ExtraData : dec.e.ExtraData[k] = LastValue(doc, k)

C3_Witness ==
    /\ phase = "decoded"
    /\ kind = "Event"
    /\ ~dec.err
    /\ doc = Document(<< <<"cid", Str("")>>, <<"foo", Str("x")>> >>)
    /\ dec.e.known["CID"] = ""
    /\ dec.e.ExtraData = [k \in {"foo"} |-> Str("x")]

\* C10: an optional known field that is absent or empty contributes no key
\* to the encoded document, "type" is always a key, and an entity with only
\* a type and an empty extra map encodes to a document whose only key is
\* "type".
C10_OmitIfEmpty ==
    phase = "encoded" =>
        /\ "type" \in DocKeys(doc)
        /\ \A i \in 1..Len(SchemaOf(kind)) :
              LET f == SchemaOf(kind)[i]
              IN  (f.omitempty /\ ent.known[f.go] = ZeroOf(f.typ)
                     /\ f.wire \notin DOMAIN ent.ExtraData)
                    => f.wire \notin DocKeys(doc)
        /\ (ent.ExtraData = EmptyMap
              /\ \A g \in OptionalFields(SchemaOf(kind)) :
                    ent.known[g] = ZeroOf(FieldOf(SchemaOf(kind), g).typ))
            => DocKeys(doc) = {"type"}

----------------------------------------------------------------------------
(* Properties of dispatch, under Spec (one call at a time) and SpecConc *)

ValidationErrors == {"event is nil", "targetUserID should not be empty"}

\* the call has passed its argument guards
PassedValidation(p) ==
    /\ call[p].ev # 0
    /\ call[p].op = "SendUserCustomEvent" => call[p].target # <<>>

\* C4: SendEvent with a nil event returns "event is nil"; SendUserCustomEvent
\* with an empty target and an event returns "targetUserID should not be
\* empty", with a target and a nil event "event is nil"; none of these calls
\* gives the transport a request.
C4_ArgumentGuards ==
    \A p \in Procs :
        /\ (call[p].op # "none" /\ ~PassedValidation(p)) => sent[p] = <<>>
        /\ pc[p] = "returned" =>
            /\ (call[p].op = "SendEvent" /\ call[p].ev = 0)
                  => ret[p] = [resp |-> "nil", err |-> "event is nil"]
            /\ (call[p].op = "SendUserCustomEvent" /\ call[p].target = <<>> /\ call[p].ev # 0)
                  => ret[p] = [resp |-> "nil", err |-> "targetUserID should not be empty"]
            /\ (call[p].op = "SendUserCustomEvent" /\ call[p].target # <<>> /\ call[p].ev = 0)
                  => ret[p] = [resp |-> "nil", err |-> "event is nil"]

C4_Witness ==
    \E p \in Procs :
        /\ pc[p] = "returned"
        /\ call[p].op = "SendUserCustomEvent"
        /\ call[p].target = <<>>
        /\ call[p].ev # 0
        /\ ret[p].err = "targetUserID should not be empty"
        /\ sent[p] = <<>>

\* C5: whatever the event's user reference was, the envelope SendEvent gives
\* the transport has the user reference {id: actingUserID}, and so has the
\* caller's event after the call.
C5_UserReferenceOverwrite ==
    \A p \in Procs :
        (call[p].op = "SendEvent" /\ call[p].ev # 0
            /\ pc[p] \in {"awaiting", "return", "returned"}) =>
            /\ Len(sent[p]) >= 1
            /\ Cardinality(MembersAt(sent[p][1].body.event, "user")) = 1
            /\ LastValue(sent[p][1].body.event, "user") = Obj(call[p].userID)
            /\ events[call[p].ev].known["User"] = <<call[p].userID>>

C5_Witness ==
    \E p \in Procs :
        /\ pc[p] = "returned"
        /\ call[p].op = "SendEvent"
        /\ call[p].ev # 0
        /\ pre[p].events[call[p].ev].known["User"] = <<"alice">>
        /\ call[p].userID = "bob"
        /\ LastValue(sent[p][1].body.event, "user") = Obj("bob")
        /\ events[call[p].ev].known["User"] = <<"bob">>

\* C6: SendEvent requests channels/{escaped type}/{escaped id}/event and
\* SendUserCustomEvent users/{escaped target}/event, the escaped values each
\* one segment between the fixed first and last ones, for every value the
\* operation accepts.
C6_PathConstruction ==
    \A p \in Procs :
        sent[p] # <<>> =>
            sent[p][1].path =
                IF call[p].op = "SendEvent"
                THEN <<"channels", "/">> \o PathEscape(call[p].chType) \o <<"/">>
                        \o PathEscape(call[p].chID) \o <<"/", "event">>
                ELSE <<"users", "/">> \o PathEscape(call[p].target) \o <<"/", "event">>

\* the envelope a call's own arguments give, from the caller's event as it
\* was when the call started
OwnEnvelope(p) ==
    IF call[p].op = "SendEvent"
    THEN [event |-> Event_MarshalJSON(
                       [pre[p].events[call[p].ev] EXCEPT
                           !.known["User"] = <<call[p].userID>>]).data]
    ELSE [event |-> UserCustomEvent_MarshalJSON(pre[p].uevents[call[p].ev]).data]

\* C7 as stated: under every interleaving of concurrent calls with different
\* arguments, each call gives the transport the envelope of its own
\* arguments and returns what the transport gave it.
C7_AnyDifferentArguments ==
    \A p \in Procs :
        (pc[p] \in {"awaiting", "return", "returned"} /\ PassedValidation(p)
            /\ \A q \in Procs \ {p} : call[q] # call[p]) =>
            /\ Len(sent[p]) = 1
            /\ sent[p][1].body = OwnEnvelope(p)
            /\ pc[p] = "returned" => ret[p] = reply[p]

\* C7 amended: under every interleaving of concurrent calls that do not pass
\* the same Event object, each call gives the transport the envelope of its
\* own arguments and returns what the transport gave it.
C7_ConcurrentDispatch ==
    \A p \in Procs :
        (~overlap[p] /\ pc[p] \in {"awaiting", "return", "returned"} /\ PassedValidation(p)) =>
            /\ Len(sent[p]) = 1
            /\ sent[p][1].body = OwnEnvelope(p)
            /\ pc[p] = "returned" => ret[p] = reply[p]

C7_Witness ==
    /\ \A p \in Procs : pc[p] = "awaiting" /\ ~overlap[p] /\ call[p].op = "SendEvent"
    /\ call[1].userID # call[2].userID
    /\ call[1].ev # call[2].ev
    /\ \A p \in Procs : LastValue(sent[p][1].body.event, "user") = Obj(call[p].userID)

\* C8: a call that passes validation gives the transport exactly one request,
\* a POST with the envelope of the event as body, also when the transport
\* returns an error, and returns the transport's response and error as they
\* are.
C8_SingleRequestPassThrough ==
    \A p \in Procs :
        /\ Len(sent[p]) <= 1
        /\ (pc[p] = "returned" /\ PassedValidation(p)) =>
            /\ Len(sent[p]) = 1
            /\ sent[p][1].method = "POST"
            /\ sent[p][1].body = OwnEnvelope(p)
            /\ reply[p] \in Replies
            /\ ret[p].resp = reply[p].resp
            /\ ret[p].err = reply[p].err

C8_Witness ==
    \E p \in Procs :
        /\ pc[p] = "returned"
        /\ PassedValidation(p)
        /\ Len(sent[p]) = 1
        /\ ret[p] = [resp |-> "zero", err |-> "transport error"]

\* C9 as stated: whenever a call returns an error, the caller's event object
\* has the field values it had before the call.
C9_NoMutationOnAnyError ==
    \A p \in Procs :
        (pc[p] = "returned" /\ ret[p].err # "nil") =>
            /\ events = pre[p].events
            /\ uevents = pre[p].uevents

\* C9 amended: a call that returns a validation error has changed no object
\* of the caller and built no request; SendUserCustomEvent changes none on a
\* transport error either; SendEvent that returns a transport error has
\* changed the event's user reference to {id: actingUserID} and nothing else.
C9_NoMutationOnValidationError ==
    \A p \in Procs :
        (pc[p] = "returned" /\ ret[p].err # "nil") =>
            IF ret[p].err \in ValidationErrors \/ call[p].op = "SendUserCustomEvent"
            THEN /\ events = pre[p].events
                 /\ uevents = pre[p].uevents
                 /\ ret[p].err \in ValidationErrors => sent[p] = <<>>
            ELSE /\ events = [pre[p].events EXCEPT
                                ![call[p].ev].known["User"] = <<call[p].userID>>]
                 /\ uevents = pre[p].uevents

C9_Witness ==
    \E p \in Procs :
        /\ pc[p] = "returned"
        /\ call[p].op = "SendEvent"
        /\ ret[p].err = "transport error"
        /\ pre[p].events[call[p].ev].known["User"] = <<>>
        /\ events[call[p].ev].known["User"] = <<call[p].userID>>

====
